---------------------------- MODULE Spec2Model ----------------------------
(***************************************************************************)
(* Model of the chrome.Instance lifecycle of 001-chromes                   *)
(* (src/001-chromes/config/config.go, package chrome, lines 264-689) and   *)
(* of the way main.go drives it.                                           *)
(*                                                                         *)
(* One Instance is modelled together with the operating system's process   *)
(* table as far as the Instance can observe or change it.  Every method of *)
(* Instance is split at the points where other goroutines can interleave:  *)
(* the acquisition of ci.mu, each blocking OS call made while ci.mu is     *)
(* held, and the blocking cmd.Wait() that Wait makes without the lock.     *)
(*                                                                         *)
(* The process scans (isChromeDirInUse, chromeStop) filter command lines   *)
(* as their shell commands do, and the registry of configurations          *)
(* (package config, lines 13-262) is modelled by the content of its file   *)
(* and the list main.go holds.                                             *)
(***************************************************************************)
EXTENDS Integers, FiniteSets, Sequences, TLC

(***************************************************************************)
(* Bounds of the model.                                                    *)
(***************************************************************************)
\* goroutines that call methods of the one Instance
NumThreads == 2
\* processes Start may launch during one run
MaxProcs == 2

Threads == 1 .. NumThreads
\* pids of the processes launched by Start, in launch order
Children == 1 .. MaxProcs
\* a process using the same profile directory that was not launched by Start
ExtPid == MaxProcs + 1
Pids == Children \cup {ExtPid}

\* ci.cmd == nil
NoCmd == 0
\* ci.mu unlocked
Free == 0

VARIABLES
    isRunning,  \* Instance.isRunning
    cmd,        \* Instance.cmd: NoCmd or the pid of the process of the *exec.Cmd
    mu,         \* Instance.mu: Free or the thread holding it
    status,     \* OS process table: pid -> state of the process
    pc,         \* thread -> position in the method it is executing
    frame,      \* thread -> local variables of the method it is executing
    ret,        \* the call that returned in the last step, and its value
    userDataDir,\* Instance.config.UserDataDir, "" for the default instance
    extCmdLine, \* command line of the process that Start did not launch
    store,      \* content of the configuration file
    configs     \* the list of configurations main.go holds

vars == <<isRunning, cmd, mu, status, pc, frame, ret,
          userDataDir, extCmdLine, store, configs>>

\* what the methods of Instance never write: the configuration of the
\* instance, the command line of a foreign process, the registry
Fixed == <<userDataDir, extCmdLine, store, configs>>

(***************************************************************************)
(* Process states: "none" (no such process), "alive", "zombie" (a child    *)
(* that has terminated and is not yet reaped), and the two states of a     *)
(* child reaped by cmd.Wait(), which is what sets cmd.ProcessState:        *)
(* "exited" (ProcessState.Exited() is true) or "killed" by a signal        *)
(* (ProcessState.Exited() is false).  How a process ended is not visible   *)
(* to the program before it is reaped.                                     *)
(***************************************************************************)
Reaped == {"exited", "killed"}
ProcStates == {"none", "alive", "zombie"} \cup Reaped

\* cmd.ProcessState != nil
HasProcessState(st, p) == st[p] \in Reaped
\* cmd.ProcessState.Exited()
Exited(st, p) == st[p] = "exited"

StopErrors == {"ErrSignalFallback", "ErrSignalNoProcess", "ErrStopByDir", "ErrNoProcess"}

NoFrame ==
    [currentCmd |-> NoCmd, pidsToKill |-> {}, killedAtLeastOne |-> FALSE,
     lastKillError |-> FALSE, sigErr |-> FALSE, arg |-> FALSE]

\* no call returned in the last step
NoRet == [t |-> 0, op |-> "none", val |-> "none"]

(***************************************************************************)
(* Paths and command lines.  A path is the sequence of its characters.  A  *)
(* command line is reduced to what the scans look at: the executable, and  *)
(* the value of the --user-data-dir= argument when there is one.           *)
(***************************************************************************)
\* the default instance: config.UserDataDir == ""
DefaultSentinel == << >>
\* the directory of a profile, the same directory in relative form (the
\* working directory is the root), and a directory whose name begins with it
ProfileDir == <<"/", "p">>
RelativeDir == <<"p">>
LongerDir == <<"/", "p", "2">>

IsPrefix(a, b) == Len(a) <= Len(b) /\ SubSeq(b, 1, Len(a)) = a

\* filepath.Abs: an absolute path is kept, a relative one is joined to the
\* working directory
Abs(path) == IF path # << >> /\ path[1] = "/" THEN path ELSE <<"/">> \o path

\* the command line Start builds (linux: lines 341-348): the directory is
\* passed as configured, and not at all for the default instance
LaunchCmdLine(dir) ==
    [exe |-> "chrome", hasDirArg |-> dir # DefaultSentinel, dirArg |-> dir]

\* the command lines a process not launched by Start may have
ExtCmdLines ==
    {[exe |-> "chrome", hasDirArg |-> FALSE, dirArg |-> << >>],
     [exe |-> "chrome", hasDirArg |-> TRUE, dirArg |-> ProfileDir],
     [exe |-> "chrome", hasDirArg |-> TRUE, dirArg |-> LongerDir],
     [exe |-> "other", hasDirArg |-> TRUE, dirArg |-> ProfileDir]}

\* the command line of process p
CmdLineOf(p) == IF p = ExtPid THEN extCmdLine ELSE LaunchCmdLine(userDataDir)

\* pgrepPattern whose filter for the default instance takes every process of
\* the executable, with or without --user-data-dir=
pgrepPattern_NoExclusion(cl, dir) ==
    /\ cl.exe = "chrome"
    /\ dir # DefaultSentinel => cl.hasDirArg /\ IsPrefix(Abs(dir), cl.dirArg)

\* the filter of the scans.  Default instance (lines 483-489, 549-555): the
\* executable, without any line that holds --user-data-dir=.  A directory
\* (lines 501-528, 581-609): pgrep -f "chrome.*--user-data-dir=<abs>", a
\* regular expression searched in the command line, open at its end.
pgrepPattern(cl, dir) ==
    /\ cl.exe = "chrome"
    /\ IF dir = DefaultSentinel
         THEN ~cl.hasDirArg
         ELSE cl.hasDirArg /\ IsPrefix(Abs(dir), cl.dirArg)

\* the pids a process scan for the profile directory reports: the processes
\* whose command line is visible, that is the ones still running, and passes
\* the filter
Discover(st) ==
    {p \in Pids : st[p] = "alive" /\ pgrepPattern(CmdLineOf(p), userDataDir)}

\* the configuration file: missing, or holding a list of entries
NoStore == [kind |-> "missing", entries |-> << >>]

\* isChromeDirInUse that asks the process table whatever the scan command
\* returned
isChromeDirInUse_IgnoresError(st, queryOk) == Discover(st) # {}

\* isChromeDirInUse: true when the scan ran and printed at least one line
isChromeDirInUse(st, queryOk) == queryOk /\ Discover(st) # {}

(***************************************************************************)
(* NewInstance: no handle, isRunning seeded by isChromeDirInUse.           *)
(***************************************************************************)
\* the instance as NewInstance returns it, no method called yet
Constructed ==
    /\ \E extAlive \in BOOLEAN, queryOk \in BOOLEAN :
          /\ status = [p \in Pids |->
                          IF p = ExtPid /\ extAlive THEN "alive" ELSE "none"]
          /\ isRunning = isChromeDirInUse(status, queryOk)
    /\ cmd = NoCmd
    /\ mu = Free
    /\ pc = [t \in Threads |-> "idle"]
    /\ frame = [t \in Threads |-> NoFrame]
    /\ ret = NoRet

\* an instance for the directory of a profile; the foreign process, when
\* there is one, uses that directory
Init ==
    /\ userDataDir = ProfileDir
    /\ extCmdLine = LaunchCmdLine(ProfileDir)
    /\ store = NoStore
    /\ configs = << >>
    /\ Constructed

\* what the scan of isChromeDirInUse came to: it failed, or it ran
ScanOutcome(queryOk) == IF queryOk THEN "scan_done" ELSE "scan_error"

\* NewInstance that takes the instance for stopped without looking
NewInstance_NoScan ==
    /\ \A t \in Threads : pc[t] = "idle"
    /\ \E queryOk \in BOOLEAN :
          /\ isRunning' = FALSE
          /\ ret' = [t |-> 0, op |-> "NewInstance", val |-> ScanOutcome(queryOk)]
    /\ cmd' = NoCmd
    /\ mu' = Free
    /\ UNCHANGED <<status, pc, frame>>
    /\ UNCHANGED Fixed

\* NewInstance (lines 291-296) when main.go builds its instances again
\* (main.go 26-42): a new Instance for the configuration, without a handle,
\* its flag seeded by isChromeDirInUse
NewInstance ==
    /\ \A t \in Threads : pc[t] = "idle"
    /\ \E queryOk \in BOOLEAN :
          /\ isRunning' = isChromeDirInUse(status, queryOk)
          /\ ret' = [t |-> 0, op |-> "NewInstance", val |-> ScanOutcome(queryOk)]
    /\ cmd' = NoCmd
    /\ mu' = Free
    /\ UNCHANGED <<status, pc, frame>>
    /\ UNCHANGED Fixed

\* a method returns: its locals die, the caller sees val
Return(t, op, val) ==
    /\ pc' = [pc EXCEPT ![t] = "idle"]
    /\ frame' = [frame EXCEPT ![t] = NoFrame]
    /\ ret' = [t |-> t, op |-> op, val |-> val]
    /\ UNCHANGED Fixed

\* a method is entered: the thread is about to ask for ci.mu
Call(t, label) ==
    /\ pc[t] = "idle"
    /\ pc' = [pc EXCEPT ![t] = label]
    /\ ret' = NoRet
    /\ UNCHANGED Fixed

\* the method goes on to its next blocking point
Goto(t, label) ==
    /\ pc' = [pc EXCEPT ![t] = label]
    /\ ret' = NoRet
    /\ UNCHANGED Fixed


(***************************************************************************)
(* Start (config.go 306-366).                                              *)
(***************************************************************************)
\* the pid the OS gives to the next process Start launches
NextPid == CHOOSE p \in Children :
               /\ status[p] = "none"
               /\ \A q \in Children : status[q] = "none" => p <= q

StartCall(t) ==
    /\ \E p \in Children : status[p] = "none"
    /\ Call(t, "Start_lock")
    /\ UNCHANGED <<isRunning, cmd, mu, status, frame>>

\* StartCheck without the test of ci.isRunning
StartCheck_NoTest(t) ==
    /\ pc[t] = "Start_lock"
    /\ mu = Free
    /\ mu' = t
    /\ Goto(t, "Start_spawn")
    /\ UNCHANGED <<isRunning, cmd, status, frame>>

\* StartCheck that tests ci.isRunning without taking ci.mu
StartCheck_NoLock(t) ==
    /\ pc[t] = "Start_lock"
    /\ IF isRunning
         THEN /\ Return(t, "Start", "ErrAlreadyRunning")
              /\ UNCHANGED <<isRunning, cmd, mu, status>>
         ELSE /\ Goto(t, "Start_spawn")
              /\ UNCHANGED <<isRunning, cmd, mu, status, frame>>

\* ci.mu.Lock(); if ci.isRunning { return error }     (lines 307-312)
StartCheck(t) ==
    /\ pc[t] = "Start_lock"
    /\ mu = Free
    /\ IF isRunning
         THEN /\ Return(t, "Start", "ErrAlreadyRunning")
              /\ UNCHANGED <<isRunning, cmd, mu, status>>
         ELSE /\ mu' = t
              /\ Goto(t, "Start_spawn")
              /\ UNCHANGED <<isRunning, cmd, status, frame>>

\* StartSpawn that sets the running flag before it looks at the error of
\* cmd.Start()
StartSpawn_FlagBeforeLaunch(t) ==
    /\ pc[t] = "Start_spawn"
    /\ \/ /\ \E p \in Children : status[p] = "none"
          /\ status' = [status EXCEPT ![NextPid] = "alive"]
          /\ cmd' = NextPid
          /\ isRunning' = TRUE
          /\ Return(t, "Start", "nil")
       \/ /\ Return(t, "Start", "ErrLaunch")
          /\ isRunning' = TRUE
          /\ UNCHANGED <<cmd, status>>
    /\ mu' = Free

\* cmd.Start() under the lock, then record the handle  (lines 358-366)
StartSpawn(t) ==
    /\ pc[t] = "Start_spawn"
    /\ \/ /\ \E p \in Children : status[p] = "none"
          /\ status' = [status EXCEPT ![NextPid] = "alive"]
          /\ cmd' = NextPid
          /\ isRunning' = TRUE
          /\ Return(t, "Start", "nil")
       \/ /\ Return(t, "Start", "ErrLaunch")
          /\ UNCHANGED <<isRunning, cmd, status>>
    /\ mu' = Free

(***************************************************************************)
(* Stop (config.go 371-413) with chromeStop (config.go 540-689).           *)
(***************************************************************************)
StopCall(t) ==
    /\ Call(t, "Stop_lock")
    /\ UNCHANGED <<isRunning, cmd, mu, status, frame>>

\* StopCheck without the test of ci.isRunning
StopCheck_NoTest(t) ==
    /\ pc[t] = "Stop_lock"
    /\ mu = Free
    /\ mu' = t
    /\ Goto(t, IF cmd # NoCmd THEN "Stop_signal" ELSE "Stop_find")
    /\ UNCHANGED <<isRunning, cmd, status, frame>>

\* ci.mu.Lock(); if !ci.isRunning { return error }; choose the path
\* (lines 372-380, 396)
StopCheck(t) ==
    /\ pc[t] = "Stop_lock"
    /\ mu = Free
    /\ IF ~isRunning
         THEN /\ Return(t, "Stop", "ErrNotRunning")
              /\ UNCHANGED <<isRunning, cmd, mu, status>>
         ELSE /\ mu' = t
              /\ Goto(t, IF cmd # NoCmd THEN "Stop_signal" ELSE "Stop_find")
              /\ UNCHANGED <<isRunning, cmd, status, frame>>

\* os.Process.Signal fails once the process has been waited for; a child that
\* has terminated but is not yet reaped still takes the signal
SignalFails(st, p) == HasProcessState(st, p)

\* StopSignal that goes on to the scan also when the signal was delivered
StopSignal_AlwaysScans(t) ==
    /\ pc[t] = "Stop_signal"
    /\ frame' = [frame EXCEPT ![t].sigErr = SignalFails(status, cmd)]
    /\ Goto(t, "Stop_find")
    /\ UNCHANGED <<isRunning, mu, cmd, status>>

\* ci.cmd.Process.Signal(SIGTERM)                      (lines 381-395, 409-412)
StopSignal(t) ==
    /\ pc[t] = "Stop_signal"
    /\ IF SignalFails(status, cmd)
         THEN /\ frame' = [frame EXCEPT ![t].sigErr = TRUE]
              /\ Goto(t, "Stop_find")
              /\ UNCHANGED <<isRunning, mu>>
         ELSE /\ isRunning' = FALSE
              /\ mu' = Free
              /\ Return(t, "Stop", "nil")
    /\ UNCHANGED <<cmd, status>>

\* what Stop returns when chromeStop gave (stopped, err)
\* (lines 385-392 after a failed signal, lines 399-406 without a handle)
StopError(sigErr, stopped, err) ==
    IF err THEN (IF sigErr THEN "ErrSignalFallback" ELSE "ErrStopByDir")
    ELSE IF ~stopped THEN (IF sigErr THEN "ErrSignalNoProcess" ELSE "ErrNoProcess")
    ELSE "nil"

\* StopReturn that marks the instance stopped whatever chromeStop answered
StopReturn_AlwaysStopped(t, stopped, err) ==
    /\ isRunning' = FALSE
    /\ mu' = Free
    /\ Return(t, "Stop", StopError(frame[t].sigErr, stopped, err))

\* the end of Stop once chromeStop has returned (stopped, err)
\* (lines 386-392, 400-406, 409-412)
StopReturn(t, stopped, err) ==
    /\ isRunning' = IF StopError(frame[t].sigErr, stopped, err) = "nil"
                      THEN FALSE ELSE isRunning
    /\ mu' = Free
    /\ Return(t, "Stop", StopError(frame[t].sigErr, stopped, err))

\* chromeStop, the scan for the pids to kill            (lines 541-634)
StopFind(t) ==
    /\ pc[t] = "Stop_find"
    /\ \E queryOk \in BOOLEAN :
          IF ~queryOk
            THEN StopReturn(t, FALSE, TRUE)
            ELSE IF Discover(status) = {}
              THEN StopReturn(t, FALSE, FALSE)
              ELSE /\ frame' = [frame EXCEPT ![t].pidsToKill = Discover(status)]
                   /\ Goto(t, "Stop_kill")
                   /\ UNCHANGED <<isRunning, mu>>
    /\ UNCHANGED <<cmd, status>>

\* what one termination request to pid p can answer (lines 650-666).  A
\* running process takes it, or refuses it when it is not ours to signal.
\* For a pid that is gone, taskkill ends with exit code 128, and
\* os.Process.Signal returns os.ErrProcessDone: it turns the ESRCH of the
\* system call into that error, so the caller never sees syscall.ESRCH.
KillAnswers(st, p) ==
    IF st[p] = "alive" THEN (IF p = ExtPid THEN {"ok", "EPERM"} ELSE {"ok"})
    ELSE IF st[p] = "zombie" THEN {"ok"}
    ELSE {"ExitCode128", "ErrProcessDone"}

\* the answers the loop counts as a stopped process: no error (line 681),
\* exit code 128 of taskkill (line 670), syscall.ESRCH (line 674)
KillAccepted == {"ok", "ExitCode128", "ESRCH"}

\* chromeStop, one turn of the loop over pidsToKill     (lines 638-683)
StopKill(t) ==
    /\ pc[t] = "Stop_kill"
    /\ frame[t].pidsToKill # {}
    /\ LET p == CHOOSE q \in frame[t].pidsToKill :
                    \A r \in frame[t].pidsToKill : q <= r
       IN  \E ans \in KillAnswers(status, p) :
             /\ frame' = [frame EXCEPT
                   ![t].pidsToKill = @ \ {p},
                   ![t].killedAtLeastOne = @ \/ ans \in KillAccepted,
                   ![t].lastKillError = @ \/ ans \notin KillAccepted]
    /\ ret' = NoRet
    /\ UNCHANGED <<isRunning, cmd, mu, status, pc>>
    /\ UNCHANGED Fixed

\* chromeStop's return value after the loop             (lines 685-688)
chromeStopResult(killedAtLeastOne, lastKillError) ==
    IF ~killedAtLeastOne /\ lastKillError
      THEN [stopped |-> FALSE, err |-> TRUE]
      ELSE [stopped |-> killedAtLeastOne, err |-> FALSE]

\* the loop is over: chromeStop returns and Stop finishes
StopFinish(t) ==
    /\ pc[t] = "Stop_kill"
    /\ frame[t].pidsToKill = {}
    /\ LET r == chromeStopResult(frame[t].killedAtLeastOne, frame[t].lastKillError)
       IN  StopReturn(t, r.stopped, r.err)
    /\ UNCHANGED <<cmd, status>>


(***************************************************************************)
(* IsRunning (config.go 417-427).                                          *)
(***************************************************************************)
IsRunningCall(t) ==
    /\ Call(t, "IsRunning_lock")
    /\ UNCHANGED <<isRunning, cmd, mu, status, frame>>

\* ci.mu.Lock()                                         (line 418)
IsRunningLock(t) ==
    /\ pc[t] = "IsRunning_lock"
    /\ mu = Free
    /\ mu' = t
    /\ Goto(t, "IsRunning_body")
    /\ UNCHANGED <<isRunning, cmd, status, frame>>

\* HandleExited without the call of ProcessState.Exited()
HandleExited_AnyState(st, c) == c # NoCmd /\ HasProcessState(st, c)

\* HandleExited that asks whether the process has ended, reaped or not
HandleExited_Ended(st, c) == c # NoCmd /\ st[c] # "alive"

\* the handle is dropped when its process was reaped and had exited (line 422)
HandleExited(st, c) == c # NoCmd /\ HasProcessState(st, c) /\ Exited(st, c)

\* IsRunningBody that scans for the directory when the instance holds no
\* handle
IsRunningBody_Rescans(t) ==
    /\ pc[t] = "IsRunning_body"
    /\ IF HandleExited(status, cmd)
         THEN /\ isRunning' = FALSE
              /\ cmd' = NoCmd
         ELSE /\ isRunning' = IF cmd = NoCmd THEN Discover(status) # {} ELSE isRunning
              /\ UNCHANGED cmd
    /\ mu' = Free
    /\ Return(t, "IsRunning", IF isRunning' THEN "true" ELSE "false")
    /\ UNCHANGED <<status>>

\* the body and the deferred Unlock                     (lines 422-426)
IsRunningBody(t) ==
    /\ pc[t] = "IsRunning_body"
    /\ IF HandleExited(status, cmd)
         THEN /\ isRunning' = FALSE
              /\ cmd' = NoCmd
         ELSE UNCHANGED <<isRunning, cmd>>
    /\ mu' = Free
    /\ Return(t, "IsRunning", IF isRunning' THEN "true" ELSE "false")
    /\ UNCHANGED <<status>>

(***************************************************************************)
(* SetRunningState (config.go 431-438).                                    *)
(***************************************************************************)
SetRunningStateCall(t) ==
    /\ Call(t, "SetRunningState_lock")
    /\ \E b \in BOOLEAN : frame' = [frame EXCEPT ![t].arg = b]
    /\ UNCHANGED <<isRunning, cmd, mu, status>>

SetRunningState(t) ==
    /\ pc[t] = "SetRunningState_lock"
    /\ mu = Free
    /\ isRunning' = frame[t].arg
    /\ cmd' = IF ~frame[t].arg THEN NoCmd ELSE cmd
    /\ Return(t, "SetRunningState", "done")
    /\ UNCHANGED <<mu, status>>

(***************************************************************************)
(* Wait (config.go 444-471).                                               *)
(***************************************************************************)
WaitCall(t) ==
    /\ Call(t, "Wait_lock")
    /\ UNCHANGED <<isRunning, cmd, mu, status, frame>>

\* WaitRead that keeps ci.mu locked while it goes into cmd.Wait()
WaitRead_KeepsLock(t) ==
    /\ pc[t] = "Wait_lock"
    /\ mu = Free
    /\ frame' = [frame EXCEPT ![t].currentCmd = cmd]
    /\ mu' = IF cmd = NoCmd THEN mu ELSE t
    /\ Goto(t, IF cmd = NoCmd THEN "Wait_nil" ELSE "Wait_blocked")
    /\ UNCHANGED <<isRunning, cmd, status>>

\* currentCmd := ci.cmd, read under the lock            (lines 445-451)
WaitRead(t) ==
    /\ pc[t] = "Wait_lock"
    /\ mu = Free
    /\ frame' = [frame EXCEPT ![t].currentCmd = cmd]
    /\ Goto(t, IF cmd = NoCmd THEN "Wait_nil" ELSE "Wait_blocked")
    /\ UNCHANGED <<isRunning, cmd, mu, status>>

\* no handle was held                                   (lines 451-460)
WaitNil(t) ==
    /\ pc[t] = "Wait_nil"
    /\ mu = Free
    /\ isRunning' = FALSE
    /\ cmd' = NoCmd
    /\ Return(t, "Wait", "nil")
    /\ UNCHANGED <<mu, status>>

\* currentCmd.Wait() returns once the process has ended; it reaps the process
\* and sets its ProcessState, without ci.mu             (line 462)
WaitBlocked(t) ==
    /\ pc[t] = "Wait_blocked"
    /\ status[frame[t].currentCmd] # "alive"
    /\ \E how \in Reaped :
          status' = [status EXCEPT ![frame[t].currentCmd] =
                        IF @ = "zombie" THEN how ELSE @]
    /\ Goto(t, "Wait_done")
    /\ UNCHANGED <<isRunning, cmd, mu, frame>>

\* WaitDone that clears the flag and keeps the handle
WaitDone_KeepsHandle(t) ==
    /\ pc[t] = "Wait_done"
    /\ mu = Free
    /\ isRunning' = FALSE
    /\ Return(t, "Wait", "exit")
    /\ UNCHANGED <<cmd, mu, status>>

\* the process has ended: update the state under the lock (lines 465-470)
WaitDone(t) ==
    /\ pc[t] = "Wait_done"
    /\ mu = Free
    /\ isRunning' = FALSE
    /\ cmd' = NoCmd
    /\ Return(t, "Wait", "exit")
    /\ UNCHANGED <<mu, status>>

(***************************************************************************)
(* The environment: a running process ends, by itself or killed by someone *)
(* else.  A child becomes a zombie, a foreign process disappears.          *)
(***************************************************************************)
ProcExit(p) ==
    /\ status[p] = "alive"
    /\ status' = [status EXCEPT ![p] = IF p = ExtPid THEN "none" ELSE "zombie"]
    /\ ret' = NoRet
    /\ UNCHANGED <<isRunning, cmd, mu, pc, frame>>
    /\ UNCHANGED Fixed

Next ==
    \/ \E t \in Threads :
          \/ StartCall(t) \/ StartCheck(t) \/ StartSpawn(t)
          \/ StopCall(t) \/ StopCheck(t) \/ StopSignal(t) \/ StopFind(t)
          \/ StopKill(t) \/ StopFinish(t)
          \/ IsRunningCall(t) \/ IsRunningLock(t) \/ IsRunningBody(t)
          \/ SetRunningStateCall(t) \/ SetRunningState(t)
          \/ WaitCall(t) \/ WaitRead(t) \/ WaitNil(t) \/ WaitBlocked(t)
          \/ WaitDone(t)
    \/ \E p \in Pids : ProcExit(p)

Spec == Init /\ [][Next]_vars

TypeOK ==
    /\ isRunning \in BOOLEAN
    /\ cmd \in {NoCmd} \cup Children
    /\ mu \in {Free} \cup Threads
    /\ status \in [Pids -> ProcStates]


\* the thread holding ci.mu is inside a locked section
LockHeld ==
    \A t \in Threads :
        pc[t] \in {"Start_spawn", "Stop_signal", "Stop_find", "Stop_kill",
                   "IsRunning_body"} <=> mu = t

(***************************************************************************)
(* Racing Start calls on an instance constructed STOPPED: only Start, the  *)
(* IsRunning polls main.go makes around it (main.go 108, 129) and the      *)
(* environment act.                                                        *)
(***************************************************************************)
InitStopped == Init /\ ~isRunning

NextStartRace ==
    \/ \E t \in Threads :
          \/ StartCall(t) \/ StartCheck(t) \/ StartSpawn(t)
          \/ IsRunningCall(t) \/ IsRunningLock(t) \/ IsRunningBody(t)
    \/ \E p \in Pids : ProcExit(p)

SpecStartRace == InitStopped /\ [][NextStartRace]_vars

\* the processes Start has launched so far
Launched == {p \in Children : status[p] # "none"}

(***************************************************************************)
(* Claims about Start.                                                     *)
(***************************************************************************)
\* C1: a Start call that finds the running flag true returns the
\* already-running error at once: in that step no process is launched and
\* isRunning and cmd keep their values.
C1_StartOnRunning ==
    [][\A t \in Threads :
          (pc[t] = "Start_lock" /\ pc'[t] # "Start_lock" /\ isRunning) =>
             /\ ret' = [t |-> t, op |-> "Start", val |-> "ErrAlreadyRunning"]
             /\ pc'[t] = "idle"
             /\ isRunning' = isRunning
             /\ cmd' = cmd
             /\ status' = status]_vars

\* C1 witness: Start was refused on an instance that owns a handle.
C1_Witness ==
    /\ ret.op = "Start" /\ ret.val = "ErrAlreadyRunning"
    /\ isRunning /\ cmd # NoCmd

\* C2 as claimed: whenever a racing Start returns, exactly one process has
\* been launched, and the call either launched it (nil) or was refused with
\* the already-running error.
C2_ExactlyOneStart ==
    ret.op = "Start" =>
        /\ ret.val \in {"nil", "ErrAlreadyRunning"}
        /\ Cardinality(Launched) = 1

\* C2 amended: racing Start calls never launch two processes.  A Start
\* returns nil having launched the only process, or the already-running error
\* when another call launched it, or a launch error while nothing is launched
\* and the flag is still false.
C2_AtMostOneStart ==
    /\ Cardinality(Launched) <= 1
    /\ isRunning <=> Cardinality(Launched) = 1
    /\ ret.op = "Start" =>
          \/ ret.val \in {"nil", "ErrAlreadyRunning"} /\ Cardinality(Launched) = 1
          \/ ret.val = "ErrLaunch" /\ Launched = {} /\ ~isRunning

\* C2 witness: a Start has just launched the process while another thread,
\* which called Start before that return, is still waiting for ci.mu.
C2_Witness ==
    /\ ret.op = "Start" /\ ret.val = "nil"
    /\ Cardinality(Launched) = 1
    /\ \E t \in Threads : t # ret.t /\ pc[t] = "Start_lock"


(***************************************************************************)
(* Claims about Stop.                                                      *)
(***************************************************************************)
\* Stop returns in this step although no termination path succeeded: the
\* scan failed or found nothing (after a failed signal or without a handle),
\* or no termination request of the loop was accepted.
StopFailsNow(t) ==
    /\ pc'[t] = "idle"
    /\ \/ pc[t] = "Stop_find"
       \/ pc[t] = "Stop_kill" /\ ~frame[t].killedAtLeastOne

\* C3: when no termination path of a Stop on a running instance succeeds,
\* Stop returns an error and the running flag is still true, the handle
\* untouched.
C3_StopFailureKeepsRunning ==
    [][\A t \in Threads :
          (isRunning /\ StopFailsNow(t)) =>
             /\ ret'.t = t /\ ret'.op = "Stop" /\ ret'.val \in StopErrors
             /\ isRunning'
             /\ cmd' = cmd]_vars

\* C3 witness: the signal to the owned handle failed, the scan found nothing,
\* Stop returned the error and the flag is still true.
C3_Witness ==
    /\ ret.op = "Stop" /\ ret.val = "ErrSignalNoProcess"
    /\ isRunning /\ cmd # NoCmd

\* C4 as claimed: on an instance that runs without an owned handle Stop takes
\* the scan-and-kill path, and when the scan runs and finds no process Stop
\* returns no error.
C4_StopExternalNothingFound ==
    [][\A t \in Threads :
          /\ (pc[t] = "Stop_lock" /\ pc'[t] # "Stop_lock" /\ isRunning
                /\ cmd = NoCmd) => pc'[t] = "Stop_find"
          /\ (pc[t] = "Stop_find" /\ cmd = NoCmd /\ Discover(status) = {}
                /\ pc'[t] = "idle" /\ ret'.val # "ErrStopByDir") =>
                   ret'.op = "Stop" /\ ret'.val \notin StopErrors]_vars

\* C10: a Stop call that finds the running flag false returns the not-running
\* error at once: it never reaches the signal, the scan or the kill loop, and
\* isRunning, cmd and the process table keep their values.
C10_StopOnStopped ==
    [][\A t \in Threads :
          (pc[t] = "Stop_lock" /\ pc'[t] # "Stop_lock" /\ ~isRunning) =>
             /\ ret' = [t |-> t, op |-> "Stop", val |-> "ErrNotRunning"]
             /\ pc'[t] = "idle"
             /\ isRunning' = isRunning
             /\ cmd' = cmd
             /\ status' = status
             /\ mu' = mu]_vars

\* C10 witness: Stop was refused on a stopped instance while a process that
\* uses the profile directory is alive: nothing was sent to it.
C10_Witness ==
    /\ ret.op = "Stop" /\ ret.val = "ErrNotRunning"
    /\ ~isRunning
    /\ Discover(status) # {}


(***************************************************************************)
(* The instance as main.go drives it when Stop is never called: Start,     *)
(* the waiter's Wait and the IsRunning polls (main.go 108, 129-153), with  *)
(* the scheduling Go gives.  A goroutine that can run does run: weak       *)
(* fairness of the steps made while ci.mu is held (one thread at a time    *)
(* can make one) and of the return of cmd.Wait().  A goroutine waiting in  *)
(* ci.mu.Lock() gets the mutex if it is released again and again           *)
(* (sync.Mutex hands the lock to a starving waiter): strong fairness of    *)
(* the step with which Wait takes ci.mu after cmd.Wait().                  *)
(***************************************************************************)
NextNoStop ==
    \/ \E t \in Threads :
          \/ StartCall(t) \/ StartCheck(t) \/ StartSpawn(t)
          \/ IsRunningCall(t) \/ IsRunningLock(t) \/ IsRunningBody(t)
          \/ WaitCall(t) \/ WaitRead(t) \/ WaitNil(t) \/ WaitBlocked(t)
          \/ WaitDone(t)
    \/ \E p \in Pids : ProcExit(p)

Fairness ==
    /\ WF_vars(\E t \in Threads : StartSpawn(t) \/ IsRunningBody(t))
    /\ \A t \in Threads : WF_vars(WaitBlocked(t)) /\ SF_vars(WaitDone(t))

SpecNoStop == Init /\ [][NextNoStop]_vars /\ Fairness

(***************************************************************************)
(* Claims about Wait and the running flag.                                 *)
(***************************************************************************)
\* C5: once the launched process a waiter is blocked on has ended and Stop
\* is never called, the waiter's Wait eventually returns, and when it does
\* the running flag is false and no handle is held.
C5_WaitReconciles ==
    \A t \in Threads :
        (pc[t] = "Wait_blocked" /\ status[frame[t].currentCmd] = "zombie")
           ~> (ret = [t |-> t, op |-> "Wait", val |-> "exit"]
                  /\ ~isRunning /\ cmd = NoCmd)

\* C5 witness: a waiter returned from the Wait on a launched process that was
\* killed, and the instance is stopped without a handle.
C5_Witness ==
    /\ ret.op = "Wait" /\ ret.val = "exit"
    /\ ~isRunning /\ cmd = NoCmd
    /\ \E p \in Children : status[p] = "killed"


NextLifecycle ==
    \/ \E t \in Threads :
          \/ StartCall(t) \/ StartCheck(t) \/ StartSpawn(t)
          \/ StopCall(t) \/ StopCheck(t) \/ StopSignal(t) \/ StopFind(t)
          \/ StopKill(t) \/ StopFinish(t)
          \/ IsRunningCall(t) \/ IsRunningLock(t) \/ IsRunningBody(t)
          \/ WaitCall(t) \/ WaitRead(t) \/ WaitNil(t) \/ WaitBlocked(t)
          \/ WaitDone(t)
    \/ \E p \in Pids : ProcExit(p)

SpecLifecycle == Init /\ [][NextLifecycle]_vars

\* C7 as claimed: whatever Start, Stop, IsRunning and Wait calls are made, at
\* most one process launched by Start is alive.
C7_AtMostOneAlive ==
    Cardinality({p \in Children : status[p] = "alive"}) <= 1

(***************************************************************************)
(* Claims about ci.mu.                                                     *)
(***************************************************************************)
\* thread t is at a point where it reads or writes isRunning, cmd or the
\* ProcessState of the owned handle: inside a locked section, or inside
\* cmd.Wait() on the handle the instance owns
TouchesState(t) ==
    \/ pc[t] \in {"Start_spawn", "Stop_signal", "Stop_find", "Stop_kill",
                  "IsRunning_body"}
    \/ pc[t] = "Wait_blocked" /\ frame[t].currentCmd = cmd

\* C8 as claimed: whoever reads or writes the owned handle, its exit status
\* or the running flag holds the instance lock.
C8_LockDiscipline ==
    \A t \in Threads : TouchesState(t) => mu = t

\* C9 as claimed: an IsRunning call never has to wait for ci.mu while the
\* thread holding it performs blocking OS I/O.
C9_IsRunningNeverWaits ==
    \A t, u \in Threads :
        ~ /\ pc[t] = "IsRunning_lock"
          /\ mu = u
          /\ pc[u] \in {"Start_spawn", "Stop_signal", "Stop_find", "Stop_kill",
                        "Wait_blocked"}

(***************************************************************************)
(* Claims about the outcome of a launch.                                   *)
(***************************************************************************)
\* C11: when cmd.Start() fails, Start returns the launch error and the
\* instance stays stopped: the running flag was false and is false, Start
\* records no handle (cmd keeps its value, nil on an instance that held
\* none) and no process has appeared.
C11_LaunchFailure ==
    [][\A t \in Threads :
          ret' = [t |-> t, op |-> "Start", val |-> "ErrLaunch"] =>
             /\ pc[t] = "Start_spawn" /\ pc'[t] = "idle"
             /\ ~isRunning /\ ~isRunning'
             /\ cmd' = cmd
             /\ status' = status]_vars

\* C11 witness: a launch has failed on an instance that never held a handle:
\* it is stopped, without a handle, and nothing was launched.
C11_Witness ==
    /\ ret.op = "Start" /\ ret.val = "ErrLaunch"
    /\ ~isRunning /\ cmd = NoCmd
    /\ Launched = {}

\* C12: on an instance constructed stopped, once a Start has succeeded and as
\* long as the exit of the launched process has not been reported (nobody
\* has reaped it), the flag is set, the instance holds the handle of the
\* launched process, and every IsRunning call that returns answers true,
\* also when the process has already ended.
C12_RunningAfterStart ==
    Launched # {} =>
       /\ isRunning
       /\ cmd \in Launched
       /\ ~HasProcessState(status, cmd)
       /\ ret.op = "IsRunning" => ret.val = "true"

\* C12 witness: IsRunning has answered true after a successful Start, for a
\* launched process that has ended and is not yet reaped.
C12_Witness ==
    /\ ret.op = "IsRunning" /\ ret.val = "true"
    /\ cmd \in Children
    /\ status[cmd] = "zombie"

(***************************************************************************)
(* Claims about IsRunning.                                                 *)
(***************************************************************************)
\* C13 as claimed: an IsRunning call that finds a handle whose process the
\* OS has reported as ended (it was reaped, cmd.ProcessState is set) sets
\* the running flag to false, drops the handle and returns false; and no
\* IsRunning call ever goes into a process scan.
C13_IsRunningSelfHeals ==
    [][\A t \in Threads :
          /\ (pc[t] = "IsRunning_body" /\ pc'[t] = "idle"
                /\ cmd # NoCmd /\ HasProcessState(status, cmd)) =>
                   /\ ret' = [t |-> t, op |-> "IsRunning", val |-> "false"]
                   /\ ~isRunning'
                   /\ cmd' = NoCmd
          /\ pc[t] \in {"IsRunning_lock", "IsRunning_body"} =>
                /\ pc'[t] \in {"IsRunning_lock", "IsRunning_body", "idle"}
                /\ frame'[t].pidsToKill = {}]_vars

(***************************************************************************)
(* The instance with the process scans in full: the configured directory   *)
(* is the default sentinel, an absolute or a relative path, and the        *)
(* foreign process has any of the command lines of ExtCmdLines.  As in     *)
(* main.go, one goroutine (the UI) constructs the instance and calls Start *)
(* and Stop (main.go 26-42, 112-140); the other goroutines are waiters     *)
(* (main.go 142-153).                                                      *)
(***************************************************************************)
UIThread == 1
Waiters == Threads \ {UIThread}

InitMatcher ==
    /\ userDataDir \in {DefaultSentinel, ProfileDir, RelativeDir}
    /\ extCmdLine \in ExtCmdLines
    /\ store = NoStore
    /\ configs = << >>
    /\ Constructed

NextMatcher ==
    \/ NewInstance
    \/ StartCall(UIThread) \/ StartCheck(UIThread) \/ StartSpawn(UIThread)
    \/ StopCall(UIThread) \/ StopCheck(UIThread) \/ StopSignal(UIThread)
    \/ StopFind(UIThread) \/ StopKill(UIThread) \/ StopFinish(UIThread)
    \/ \E t \in Waiters :
          \/ WaitCall(t) \/ WaitRead(t) \/ WaitNil(t) \/ WaitBlocked(t)
          \/ WaitDone(t)
    \/ \E p \in Pids : ProcExit(p)

SpecMatcher == InitMatcher /\ [][NextMatcher]_vars

(***************************************************************************)
(* Claims about construction and the process scans.                        *)
(***************************************************************************)
\* C14: a newly constructed instance has its running flag true exactly when
\* the scan for its directory ran and reported a process, and it holds no
\* handle in both cases.
C14_ConstructedByScan ==
    [][ret'.op = "NewInstance" =>
          /\ isRunning' <=> (ret'.val = "scan_done" /\ Discover(status) # {})
          /\ cmd' = NoCmd]_vars

\* C14 witness: an instance was constructed running without a handle, after
\* the instance it replaces had been stopped while the reported process
\* stayed alive.
C14_Witness ==
    /\ ret.op = "NewInstance" /\ ret.val = "scan_done"
    /\ isRunning /\ cmd = NoCmd
    /\ \E p \in Children : status[p] = "alive"

UsesProfileDir(p) ==
    /\ CmdLineOf(p).exe = "chrome"
    /\ CmdLineOf(p).hasDirArg
    /\ Abs(CmdLineOf(p).dirArg) = Abs(userDataDir)

\* C16 as claimed: for a directory other than the default sentinel, a scan
\* reports only processes of the target executable whose directory argument
\* equals the configured directory after normalization, so the pids Stop is
\* about to signal are such processes only: a process whose directory
\* merely begins with the configured one is neither reported nor signalled.
C16_ExactDirectoryMatch ==
    userDataDir # DefaultSentinel =>
       /\ \A p \in Discover(status) : UsesProfileDir(p)
       /\ \A t \in Threads : \A p \in frame[t].pidsToKill : UsesProfileDir(p)

\* no process with a --user-data-dir= argument is in what a scan for the
\* default instance reports, among the pids a Stop is about to signal, or
\* behind the handle Stop signals
DefaultExcludesProfiled ==
    userDataDir = DefaultSentinel =>
       /\ \A p \in Discover(status) : ~CmdLineOf(p).hasDirArg
       /\ \A t \in Threads : \A p \in frame[t].pidsToKill : ~CmdLineOf(p).hasDirArg
       /\ cmd # NoCmd => ~CmdLineOf(cmd).hasDirArg

\* C17: for the default instance the scans leave out every process whose
\* command line has a --user-data-dir= argument.  Such a process is never
\* among the pids Stop signals, and an instance constructed while only such
\* processes run is constructed stopped.
C17_DefaultExcludesProfiled ==
    [][/\ DefaultExcludesProfiled
       /\ DefaultExcludesProfiled'
       /\ (/\ ret'.op = "NewInstance"
           /\ userDataDir = DefaultSentinel
           /\ \A p \in Pids : status[p] = "alive" => CmdLineOf(p).hasDirArg)
             => ~isRunning']_vars

\* C17 witness: the default instance, constructed running without a handle,
\* was stopped through the scan while a browser with a --user-data-dir=
\* argument is alive.
C17_Witness ==
    /\ userDataDir = DefaultSentinel
    /\ ret.op = "Stop" /\ ret.val = "nil"
    /\ cmd = NoCmd
    /\ status[ExtPid] = "alive"
    /\ extCmdLine.exe = "chrome" /\ extCmdLine.hasDirArg

\* C18: when the scan cannot be run or fails, the discovery of construction
\* answers not-found instead of an error: the instance is constructed
\* stopped, without a handle, whatever processes are running.
C18_ScanFailureMeansStopped ==
    [][(ret'.op = "NewInstance" /\ ret'.val = "scan_error") =>
          /\ ~isRunning'
          /\ cmd' = NoCmd
          /\ \A t \in Threads : pc'[t] = "idle"]_vars

\* C18 witness: the scan failed while a process uses the directory, and the
\* instance was constructed stopped.
C18_Witness ==
    /\ ret.op = "NewInstance" /\ ret.val = "scan_error"
    /\ ~isRunning /\ cmd = NoCmd
    /\ \E p \in Pids : status[p] = "alive" /\ pgrepPattern(CmdLineOf(p), userDataDir)

\* C19 as claimed: a termination request that finds its process already gone
\* counts as a stopped process and leaves no error behind, and a kill loop
\* that ends with a stopped process makes Stop return success with the
\* running flag false.  So when every process the scan found is gone by the
\* time of its request, Stop succeeds.
C19_GoneCountsAsStopped ==
    [][\A t \in Threads :
          /\ (pc[t] = "Stop_kill" /\ pc'[t] = "Stop_kill"
                /\ frame'[t].pidsToKill # frame[t].pidsToKill) =>
                   \A p \in frame[t].pidsToKill \ frame'[t].pidsToKill :
                      status[p] \notin {"alive", "zombie"} =>
                         /\ frame'[t].killedAtLeastOne
                         /\ frame'[t].lastKillError = frame[t].lastKillError
          /\ (pc[t] = "Stop_kill" /\ pc'[t] = "idle"
                /\ frame[t].killedAtLeastOne) =>
                   /\ ret' = [t |-> t, op |-> "Stop", val |-> "nil"]
                   /\ ~isRunning']_vars

(***************************************************************************)
(* The registry of configurations (config.go, package config, 13-262).     *)
(* A configuration is a record with the fields of ChromeConfig.  The file  *)
(* holds the Name and UserDataDir of each saved configuration: IsDefault   *)
(* is not written (json:"-").                                              *)
(***************************************************************************)
\* entries the configuration file may hold
MaxEntries == 2

\* "[默认配置]"
DefaultChromeConfigName == "[default]"
\* the names a caller may pass; "" is the name of a form submitted with its
\* name field left empty (main.go 196)
ConfigNames == {DefaultChromeConfigName, "", "a", "b"}

\* GetDefaultUserDataDir (lines 30-58) on a platform it knows
actualDefaultDir == <<"/", "d">>
UpperDefaultDir == <<"/", "D">>
UpperDir == <<"/", "P">>
BlankDir == <<" ">>
RelativeDefaultDir == <<"d">>
ConfigDirs ==
    {DefaultSentinel, BlankDir, ProfileDir, RelativeDir, UpperDir, LongerDir,
     actualDefaultDir, UpperDefaultDir, RelativeDefaultDir}

\* strings.EqualFold
ToLower(c) == CASE c = "P" -> "p" [] c = "D" -> "d" [] OTHER -> c
Fold(path) == [i \in 1 .. Len(path) |-> ToLower(path[i])]
EqualFold(a, b) == Fold(a) = Fold(b)

\* strings.TrimSpace(s) == ""
TrimSpaceIsEmpty(path) == \A i \in 1 .. Len(path) : path[i] = " "

defaultInstance ==
    [Name |-> DefaultChromeConfigName, UserDataDir |-> DefaultSentinel,
     IsDefault |-> TRUE]

\* the elements of the JSON array in the file: objects with a name and a
\* directory, or null
FileEntries == [json : {"object"}, Name : ConfigNames, UserDataDir : ConfigDirs]
NullEntry == [json |-> "null", Name |-> "", UserDataDir |-> << >>]

\* a byte that is not part of any UTF-8 sequence, which a Go string and a
\* file name may hold, and the rune U+FFFD
InvalidByte == "0xFF"
ReplacementChar == "U+FFFD"
InvalidUtf8Dir == <<"/", InvalidByte>>

\* encoding/json writes a string coerced to valid UTF-8: every invalid byte
\* becomes U+FFFD
CoerceUTF8(str) ==
    [i \in 1 .. Len(str) |-> IF str[i] = InvalidByte THEN ReplacementChar ELSE str[i]]

\* json.MarshalIndent of the configurations: Name and UserDataDir as JSON
\* strings, IsDefault left out (json:"-"); the names of the model are valid
\* UTF-8
Marshal(cfgs) ==
    [i \in 1 .. Len(cfgs) |->
        [json |-> "object", Name |-> cfgs[i].Name,
         UserDataDir |-> CoerceUTF8(cfgs[i].UserDataDir)]]

\* Unmarshal that stores the directories in absolute form
Unmarshal_AbsDir(entries) ==
    [i \in 1 .. Len(entries) |->
        [Name |-> entries[i].Name, UserDataDir |-> Abs(entries[i].UserDataDir),
         IsDefault |-> FALSE]]

\* json.Unmarshal into []*ChromeConfig, IsDefault set at line 144
Unmarshal(entries) ==
    [i \in 1 .. Len(entries) |->
        [Name |-> entries[i].Name, UserDataDir |-> entries[i].UserDataDir,
         IsDefault |-> FALSE]]

\* the directory is the default profile directory of the platform, as
\* LoadConfigs tests it (lines 133-136)
LoadReservedDir(dir) ==
    actualDefaultDir # << >> /\ EqualFold(Abs(dir), Abs(actualDefaultDir))

\* LoadKeeps that also drops a directory of white space, as AddConfig
\* refuses it
LoadKeeps_DropsBlank(cfg) ==
    /\ cfg.Name # DefaultChromeConfigName
    /\ ~LoadReservedDir(cfg.UserDataDir)
    /\ ~TrimSpaceIsEmpty(cfg.UserDataDir)

\* the entries LoadConfigs keeps (lines 127-146)
LoadKeeps(cfg) ==
    /\ cfg.Name # DefaultChromeConfigName
    /\ ~LoadReservedDir(cfg.UserDataDir)
    /\ cfg.UserDataDir # << >>

\* json.Unmarshal leaves a nil *ChromeConfig for a null element of the array
\* (line 117), and the loop over userConfigs reads cfg.Name of every element
\* (line 128): a nil pointer dereference, which ends the program
LoadPanics(st) ==
    st.kind = "ok" /\ \E i \in DOMAIN st.entries : st.entries[i].json = "null"

\* LoadConfigs (lines 97-154), the list it returns when it returns
LoadConfigs(st) ==
    IF st.kind # "ok"
      THEN <<defaultInstance>>
      ELSE <<defaultInstance>> \o SelectSeq(Unmarshal(st.entries), LoadKeeps)

\* the same test in SaveConfigs (lines 175-180)
SaveReservedDir(dir) ==
    actualDefaultDir # << >> /\ EqualFold(Abs(dir), Abs(actualDefaultDir))

IsUserConfig(cfg) == ~cfg.IsDefault

\* SaveConfigs refuses the list (lines 163-182)
SaveConfigsError(cfgs) ==
    \E i \in DOMAIN cfgs :
        /\ ~cfgs[i].IsDefault
        /\ \/ cfgs[i].Name = DefaultChromeConfigName
           \/ cfgs[i].UserDataDir = << >>
           \/ SaveReservedDir(cfgs[i].UserDataDir)

\* what SaveConfigs writes (lines 160-166, 181-193)
Written(cfgs) == [kind |-> "ok", entries |-> Marshal(SelectSeq(cfgs, IsUserConfig))]

\* AddReservedDir that compares the directory as it is written
AddReservedDir_Exact(dir) == actualDefaultDir # << >> /\ dir = actualDefaultDir

\* the same test in AddConfig (lines 206-212)
AddReservedDir(dir) ==
    actualDefaultDir # << >> /\ EqualFold(Abs(dir), Abs(actualDefaultDir))

\* AddCollisions that compares the directories as they are written
AddCollisions_ExactDir(name, dir, current) ==
    {i \in DOMAIN current :
        /\ ~current[i].IsDefault
        /\ \/ current[i].Name = name
           \/ current[i].UserDataDir = dir}

\* the entries of current that AddConfig finds in the way (lines 214-226)
AddCollisions(name, dir, current) ==
    {i \in DOMAIN current :
        /\ ~current[i].IsDefault
        /\ \/ current[i].Name = name
           \/ EqualFold(Abs(current[i].UserDataDir), Abs(dir))}

\* the validation of AddConfig (lines 199-226): "nil" or the error
AddConfigError(name, dir, current) ==
    IF name = DefaultChromeConfigName THEN "ErrReservedName"
    ELSE IF TrimSpaceIsEmpty(dir) THEN "ErrEmptyDir"
    ELSE IF AddReservedDir(dir) THEN "ErrReservedDir"
    ELSE IF AddCollisions(name, dir, current) = {} THEN "nil"
    ELSE LET i == CHOOSE j \in AddCollisions(name, dir, current) :
                     \A k \in AddCollisions(name, dir, current) : j <= k
         IN  IF current[i].Name = name THEN "ErrNameExists" ELSE "ErrDirExists"

\* updatedConfigs of AddConfig (lines 228-229)
Appended(list, name, dir) ==
    Append(list, [Name |-> name, UserDataDir |-> dir, IsDefault |-> FALSE])

\* a call of the registry returns val; name and dir are its arguments
RegistryReturn(op, val, name, dir) ==
    /\ ret' = [t |-> 0, op |-> op, val |-> val, name |-> name, dir |-> dir]
    /\ UNCHANGED <<isRunning, cmd, mu, status, pc, frame, userDataDir, extCmdLine>>

\* main.go loads the list (main.go 27, 166)
Reload ==
    /\ configs' = LoadConfigs(store)
    /\ RegistryReturn("LoadConfigs", "nil", "", << >>)
    /\ UNCHANGED store

\* the form is submitted (main.go 195-216): AddConfig on the list just
\* loaded (lines 198-235), and on success the list is loaded again
OnSubmit(name, dir) ==
    LET current == LoadConfigs(store)
        err == AddConfigError(name, dir, current)
        updatedConfigs ==
            Append(current, [Name |-> name, UserDataDir |-> dir, IsDefault |-> FALSE])
    IN  /\ Len(store.entries) < MaxEntries
        /\ IF err # "nil"
             THEN /\ RegistryReturn("AddConfig", err, name, dir)
                  /\ UNCHANGED <<store, configs>>
             ELSE \E writeOk \in BOOLEAN :
                    IF SaveConfigsError(updatedConfigs) \/ ~writeOk
                      THEN /\ RegistryReturn("AddConfig", "ErrSave", name, dir)
                           /\ UNCHANGED <<store, configs>>
                      ELSE /\ store' = Written(updatedConfigs)
                           /\ configs' = LoadConfigs(store')
                           /\ RegistryReturn("AddConfig", "nil", name, dir)

\* the entries of current that RemoveConfig drops (lines 246-252)
RemoveMatches(name, current) == {i \in DOMAIN current : current[i].Name = name}

\* RemoveConfigError without the test of the reserved name
RemoveConfigError_NoProtection(name, current) ==
    IF RemoveMatches(name, current) = {} THEN "ErrNotFound" ELSE "nil"

\* the checks of RemoveConfig (lines 240-256): "nil" or the error
RemoveConfigError(name, current) ==
    IF name = DefaultChromeConfigName THEN "ErrProtected"
    ELSE IF RemoveMatches(name, current) = {} THEN "ErrNotFound"
    ELSE "nil"

\* updatedConfigs of RemoveConfig (lines 245-252)
Removed(name, current) == SelectSeq(current, LAMBDA cfg : cfg.Name # name)

\* the delete button of a listed configuration is confirmed (main.go 85-105;
\* the default entry has no button, main.go 81): RemoveConfig on the list
\* just loaded (lines 239-262), and on success the list is loaded again
OnRemove(name) ==
    LET current == LoadConfigs(store)
        err == RemoveConfigError(name, current)
    IN  /\ \E i \in DOMAIN configs : ~configs[i].IsDefault /\ configs[i].Name = name
        /\ IF err # "nil"
             THEN /\ RegistryReturn("RemoveConfig", err, name, << >>)
                  /\ UNCHANGED <<store, configs>>
             ELSE \E writeOk \in BOOLEAN :
                    IF SaveConfigsError(Removed(name, current)) \/ ~writeOk
                      THEN /\ RegistryReturn("RemoveConfig", "ErrSave", name, << >>)
                           /\ UNCHANGED <<store, configs>>
                      ELSE /\ store' = Written(Removed(name, current))
                           /\ configs' = LoadConfigs(store')
                           /\ RegistryReturn("RemoveConfig", "nil", name, << >>)

(***************************************************************************)
(* The functions of package config called on any list: the caller holds    *)
(* the list in configs, passes it as currentConfigs and keeps the list     *)
(* that is returned.                                                       *)
(***************************************************************************)
\* the configurations the lists of a caller are made of: the default
\* instance, profiles AddConfig accepts, and profiles it would refuse
CallerConfigs ==
    {defaultInstance,
     [Name |-> "a", UserDataDir |-> ProfileDir, IsDefault |-> FALSE],
     [Name |-> "b", UserDataDir |-> BlankDir, IsDefault |-> FALSE],
     [Name |-> "b", UserDataDir |-> InvalidUtf8Dir, IsDefault |-> FALSE],
     [Name |-> DefaultChromeConfigName, UserDataDir |-> RelativeDir, IsDefault |-> FALSE],
     [Name |-> "a", UserDataDir |-> DefaultSentinel, IsDefault |-> FALSE],
     [Name |-> "b", UserDataDir |-> UpperDefaultDir, IsDefault |-> FALSE],
     [Name |-> "a", UserDataDir |-> LongerDir, IsDefault |-> TRUE]}

\* the lists of at most MaxEntries configurations
CallerLists ==
    UNION {[1 .. n -> CallerConfigs] : n \in 0 .. MaxEntries}

\* the directories a caller may pass
CallerDirs == ConfigDirs \cup {InvalidUtf8Dir}

\* LoadConfigs()
LoadConfigsCall ==
    /\ IF LoadPanics(store)
         THEN /\ RegistryReturn("LoadConfigs", "panic", "", << >>)
              /\ UNCHANGED configs
         ELSE /\ configs' = LoadConfigs(store)
              /\ RegistryReturn("LoadConfigs", "nil", "", << >>)
    /\ UNCHANGED store

\* SaveConfigs(configs) (lines 159-194)
SaveConfigsCall ==
    IF SaveConfigsError(configs)
      THEN /\ RegistryReturn("SaveConfigs", "ErrInvalid", "", << >>)
           /\ UNCHANGED <<store, configs>>
      ELSE \E writeOk \in BOOLEAN :
             /\ store' = IF writeOk THEN Written(configs) ELSE store
             /\ RegistryReturn("SaveConfigs", IF writeOk THEN "nil" ELSE "ErrWrite",
                               "", << >>)
             /\ UNCHANGED configs

\* AddConfig(name, dir, configs) (lines 198-235)
AddConfigCall(name, dir) ==
    LET err == AddConfigError(name, dir, configs)
    IN  /\ Len(configs) <= MaxEntries
        /\ IF err # "nil"
             THEN /\ RegistryReturn("AddConfig", err, name, dir)
                  /\ UNCHANGED <<store, configs>>
             ELSE \E writeOk \in BOOLEAN :
                    IF SaveConfigsError(Appended(configs, name, dir)) \/ ~writeOk
                      THEN /\ RegistryReturn("AddConfig", "ErrSave", name, dir)
                           /\ UNCHANGED <<store, configs>>
                      ELSE /\ store' = Written(Appended(configs, name, dir))
                           /\ configs' = Appended(configs, name, dir)
                           /\ RegistryReturn("AddConfig", "nil", name, dir)

\* RemoveConfig(name, configs) (lines 239-262)
RemoveConfigCall(name) ==
    LET err == RemoveConfigError(name, configs)
    IN  IF err # "nil"
          THEN /\ RegistryReturn("RemoveConfig", err, name, << >>)
               /\ UNCHANGED <<store, configs>>
          ELSE \E writeOk \in BOOLEAN :
                 IF SaveConfigsError(Removed(name, configs)) \/ ~writeOk
                   THEN /\ RegistryReturn("RemoveConfig", "ErrSave", name, << >>)
                        /\ UNCHANGED <<store, configs>>
                   ELSE /\ store' = Written(Removed(name, configs))
                        /\ configs' = Removed(name, configs)
                        /\ RegistryReturn("RemoveConfig", "nil", name, << >>)

\* what the file may hold when LoadConfigs reads it: nothing (missing),
\* something that cannot be read or is not the JSON of a list, or a JSON array
\* of at most MaxEntries elements
StoreContents ==
    {[kind |-> k, entries |-> << >>] : k \in {"missing", "unreadable", "unparsable"}}
      \cup {[kind |-> "ok", entries |-> e] :
              e \in UNION {[1 .. n -> FileEntries \cup {NullEntry}] :
                              n \in 0 .. MaxEntries}}

\* LoadConfigs called on any content of the file
InitLoad ==
    /\ store \in StoreContents
    /\ configs = << >>
    /\ userDataDir = DefaultSentinel
    /\ extCmdLine = LaunchCmdLine(DefaultSentinel)
    /\ isRunning = FALSE
    /\ cmd = NoCmd
    /\ mu = Free
    /\ status = [p \in Pids |-> "none"]
    /\ pc = [t \in Threads |-> "idle"]
    /\ frame = [t \in Threads |-> NoFrame]
    /\ ret = NoRet

SpecLoad == InitLoad /\ [][LoadConfigsCall]_vars

InitApi ==
    /\ store \in {NoStore,
                  [kind |-> "ok",
                   entries |-> <<[json |-> "object", Name |-> "a",
                                  UserDataDir |-> LongerDir]>>]}
    /\ configs \in CallerLists
    /\ userDataDir = DefaultSentinel
    /\ extCmdLine = LaunchCmdLine(DefaultSentinel)
    /\ isRunning = FALSE
    /\ cmd = NoCmd
    /\ mu = Free
    /\ status = [p \in Pids |-> "none"]
    /\ pc = [t \in Threads |-> "idle"]
    /\ frame = [t \in Threads |-> NoFrame]
    /\ ret = NoRet

NextApi ==
    \/ LoadConfigsCall
    \/ SaveConfigsCall
    \/ \E name \in ConfigNames, dir \in CallerDirs : AddConfigCall(name, dir)
    \/ \E name \in ConfigNames : RemoveConfigCall(name)

SpecApi == InitApi /\ [][NextApi]_vars

\* the file once main.go has loaded it (main.go 166): missing, unreadable,
\* not valid JSON, or an array of at most one object of any content
InitStores ==
    {NoStore, [kind |-> "unreadable", entries |-> << >>],
     [kind |-> "unparsable", entries |-> << >>],
     [kind |-> "ok", entries |-> << >>]}
       \cup {[kind |-> "ok", entries |-> <<e>>] : e \in FileEntries}

InitRegistry ==
    /\ store \in InitStores
    /\ configs = LoadConfigs(store)
    /\ userDataDir = DefaultSentinel
    /\ extCmdLine = LaunchCmdLine(DefaultSentinel)
    /\ isRunning = FALSE
    /\ cmd = NoCmd
    /\ mu = Free
    /\ status = [p \in Pids |-> "none"]
    /\ pc = [t \in Threads |-> "idle"]
    /\ frame = [t \in Threads |-> NoFrame]
    /\ ret = NoRet

NextRegistry ==
    \/ Reload
    \/ \E name \in ConfigNames, dir \in ConfigDirs : OnSubmit(name, dir)
    \/ \E name \in ConfigNames : OnRemove(name)

SpecRegistry == InitRegistry /\ [][NextRegistry]_vars

(***************************************************************************)
(* Claims about the registry.                                              *)
(***************************************************************************)
\* how often the pair (name, dir) is in the list
Occurrences(list, name, dir) ==
    Cardinality({i \in DOMAIN list :
                    list[i].Name = name /\ list[i].UserDataDir = dir})

ValidationErrors ==
    {"ErrReservedName", "ErrEmptyDir", "ErrReservedDir", "ErrNameExists",
     "ErrDirExists"}

\* no two non-default profiles of the list share a name, or a directory
\* after filepath.Abs and case folding
UniqueProfiles(list) ==
    \A i, j \in DOMAIN list :
        (i < j /\ ~list[i].IsDefault /\ ~list[j].IsDefault) =>
           /\ list[i].Name # list[j].Name
           /\ ~EqualFold(Abs(list[i].UserDataDir), Abs(list[j].UserDataDir))

NormalizesToDefault(dir) == EqualFold(Abs(dir), Abs(actualDefaultDir))

\* C22: an Add whose directory normalizes to the default profile directory
\* of the platform returns a validation error, whatever the name and the
\* list it is given, and the list and the file stay as they were.
C22_AddDefaultDirRefused ==
    [][(ret'.op = "AddConfig" /\ NormalizesToDefault(ret'.dir)) =>
          /\ ret'.val \in ValidationErrors
          /\ configs' = configs
          /\ store' = store]_vars

\* C22 witness: an Add with the default directory in another case or in
\* relative form, under a free name and on a list that holds other profiles,
\* was refused for its directory.
C22_Witness ==
    /\ ret.op = "AddConfig" /\ ret.val = "ErrReservedDir"
    /\ ret.dir \in {UpperDefaultDir, RelativeDefaultDir}
    /\ Len(configs) >= 2
    /\ \A i \in DOMAIN configs : configs[i].Name # ret.name

\* C23: a Remove called with the reserved default name returns the
\* protected-entity error whatever list it is given, also a list without
\* the default entry; the list it returns is the one it was given and the
\* file is not written.
C23_RemoveDefaultRefused ==
    [][(ret'.op = "RemoveConfig" /\ ret'.name = DefaultChromeConfigName) =>
          /\ ret'.val = "ErrProtected"
          /\ configs' = configs
          /\ store' = store]_vars

\* C23 witness: the Remove of the default name was refused on a list that
\* holds profiles and no default entry.
C23_Witness ==
    /\ ret.op = "RemoveConfig" /\ ret.val = "ErrProtected"
    /\ ret.name = DefaultChromeConfigName
    /\ configs # << >>
    /\ \A i \in DOMAIN configs : ~configs[i].IsDefault

\* what the claim says of a list LoadConfigs returns: the default profile
\* with the empty directory comes first, and no other element is default,
\* carries the reserved name, has an empty directory or a directory that
\* normalizes to the default profile directory
LoadedListValid(list) ==
    /\ list # << >>
    /\ list[1] = defaultInstance
    /\ \A i \in 2 .. Len(list) :
          /\ ~list[i].IsDefault
          /\ list[i].Name # DefaultChromeConfigName
          /\ list[i].UserDataDir # DefaultSentinel
          /\ ~NormalizesToDefault(list[i].UserDataDir)

\* C24 as claimed: whatever the file holds, LoadConfigs returns, without a
\* fatal error, a list that begins with the default profile and holds no
\* other default, reserved-name, empty-directory or default-directory
\* element.
C24_LoadAlwaysReturns ==
    [][ret'.op = "LoadConfigs" =>
          /\ ret'.val = "nil"
          /\ LoadedListValid(configs')]_vars

\* the non-default entries of a list, in their order
NonDefault(list) == SelectSeq(list, IsUserConfig)

\* the list with every directory coerced to valid UTF-8
CoercedDirs(list) ==
    [i \in 1 .. Len(list) |->
        [list[i] EXCEPT !.UserDataDir = CoerceUTF8(list[i].UserDataDir)]]

\* a Save that succeeded wrote one element for each non-default entry of its
\* list, none for the default sentinel: no element carries the reserved name
\* or an empty directory
SaveWritesUserEntries ==
    (ret'.op = "SaveConfigs" /\ ret'.val = "nil") =>
       /\ store'.kind = "ok"
       /\ Len(store'.entries) = Len(NonDefault(configs))
       /\ \A i \in DOMAIN store'.entries :
             /\ store'.entries[i].Name = NonDefault(configs)[i].Name
             /\ store'.entries[i].Name # DefaultChromeConfigName
             /\ store'.entries[i].UserDataDir # DefaultSentinel

C26_AddRejectsEmptyName ==
    [][ret'.op = "AddConfig" =>
          /\ ret'.name = "" => ret'.val # "nil"
          /\ ret'.val = "nil" => configs'[Len(configs')].Name # ""]_vars

(***************************************************************************)
(* The restart of an instance: a Stop has just succeeded by its signal to  *)
(* the handle of the first launch, which leaves the handle in place        *)
(* (config.go 381, 409-412); the waiter of that launch (main.go 142-153)   *)
(* has not started, is about to read ci.cmd, or is blocked in cmd.Wait().  *)
(* From there the UI goroutine calls Start and IsRunning and never Stop,   *)
(* and the other goroutines are waiters.                                   *)
(***************************************************************************)
FirstChild == 1

InitRestart ==
    /\ userDataDir = ProfileDir
    /\ extCmdLine = LaunchCmdLine(ProfileDir)
    /\ store = NoStore
    /\ configs = << >>
    /\ isRunning = FALSE
    /\ cmd = FirstChild
    /\ mu = Free
    /\ \E st \in {"alive", "zombie"} :
          status = [p \in Pids |-> IF p = FirstChild THEN st ELSE "none"]
    /\ \E w \in {0} \cup Waiters, at \in {"Wait_lock", "Wait_blocked"} :
          /\ pc = [t \in Threads |-> IF t = w THEN at ELSE "idle"]
          /\ frame = [t \in Threads |->
                         IF t = w /\ at = "Wait_blocked"
                           THEN [NoFrame EXCEPT !.currentCmd = FirstChild]
                           ELSE NoFrame]
    /\ ret = [t |-> UIThread, op |-> "Stop", val |-> "nil"]

NextRestart ==
    \/ StartCall(UIThread) \/ StartCheck(UIThread) \/ StartSpawn(UIThread)
    \/ IsRunningCall(UIThread) \/ IsRunningLock(UIThread) \/ IsRunningBody(UIThread)
    \/ \E t \in Waiters :
          \/ WaitCall(t) \/ WaitRead(t) \/ WaitNil(t) \/ WaitBlocked(t)
          \/ WaitDone(t)
    \/ \E p \in Pids : ProcExit(p)

SpecRestart == InitRestart /\ [][NextRestart]_vars

\* C27 as claimed: after a successful Stop on an owned instance and a
\* successful Start that follows it, and with no further Stop, the running
\* flag is true and the instance holds the handle of the newly launched
\* process for as long as that process is alive, wherever the waiter of the
\* earlier launch and the waiter of the new one are.
C27_RestartKeepsRunning ==
    \A p \in Children \ {FirstChild} :
        status[p] = "alive" => isRunning /\ cmd = p

\* the kill loop of thread t remembers a failed termination request, and
\* that request was refused by a process that is still alive: the foreign
\* process is alive, and no process the scan may have found has vanished
\* since (a launched process that ended is still a zombie, which takes the
\* signal)
RefusedByLive(t) ==
    /\ frame[t].lastKillError
    /\ status[ExtPid] = "alive"
    /\ \A p \in Children : ~HasProcessState(status, p)

\* C28 as claimed: when a termination request of the kill loop was refused
\* by a process that is still alive, Stop returns an error and the running
\* flag stays true, also when other processes the scan found were
\* terminated.
C28_AllFoundStopped ==
    [][\A t \in Threads :
          (pc[t] = "Stop_kill" /\ pc'[t] = "idle" /\ RefusedByLive(t)) =>
             /\ ret'.op = "Stop" /\ ret'.val \in StopErrors
             /\ isRunning']_vars

\* the next step of the method thread t is executing
MethodStep(t) ==
    \/ StartCheck(t) \/ StartSpawn(t)
    \/ StopCheck(t) \/ StopSignal(t) \/ StopFind(t) \/ StopKill(t)
    \/ StopFinish(t)
    \/ IsRunningLock(t) \/ IsRunningBody(t)
    \/ WaitRead(t) \/ WaitNil(t) \/ WaitBlocked(t) \/ WaitDone(t)

\* thread t is inside cmd.Wait() on a process that is alive
BlockedOnLive(t) ==
    pc[t] = "Wait_blocked" /\ status[frame[t].currentCmd] = "alive"

\* C29: a Wait that is blocked on a live process does not hold ci.mu.  Every
\* other call in progress (Start, Stop, IsRunning, or a Wait that is not
\* inside cmd.Wait()) can make its next step, or waits for ci.mu while the
\* thread that holds it can make its next step: a blocked Wait stops no
\* call from completing, and no interleaving of the four methods ends in a
\* state where a call is stuck.
C29_BlockedWaitHoldsNoLock ==
    /\ \A t \in Threads : pc[t] = "Wait_blocked" => mu # t
    /\ \A t \in Threads :
          (pc[t] # "idle" /\ ~BlockedOnLive(t)) =>
             \/ ENABLED MethodStep(t)
             \/ /\ mu \in Threads \ {t}
                /\ ~BlockedOnLive(mu)
                /\ ENABLED MethodStep(mu)

\* C29 witness: a Stop has returned success while a waiter is blocked in
\* cmd.Wait() on the process, which is still alive.
C29_Witness ==
    /\ ret.op = "Stop" /\ ret.val = "nil"
    /\ \E t \in Threads : t # ret.t /\ BlockedOnLive(t) /\ frame[t].currentCmd = cmd

(***************************************************************************)
(* An instance that is only polled: after its construction (any directory, *)
(* any foreign process) the goroutines call IsRunning and nothing else     *)
(* (main.go 108, 129), while the processes end when they will.             *)
(***************************************************************************)
NextPoll ==
    \/ \E t \in Threads :
          IsRunningCall(t) \/ IsRunningLock(t) \/ IsRunningBody(t)
    \/ \E p \in Pids : ProcExit(p)

SpecPoll == InitMatcher /\ [][NextPoll]_vars

\* C30: on an instance that holds no handle and on which only IsRunning is
\* called, the running flag never changes and every IsRunning call returns
\* it, whatever becomes of the processes; no handle appears.
C30_PollIsConstant ==
    [][/\ cmd = NoCmd /\ cmd' = NoCmd
       /\ isRunning' = isRunning
       /\ ret'.op = "IsRunning" =>
             ret'.val = (IF isRunning THEN "true" ELSE "false")]_vars

\* C30 witness: an instance constructed running without a handle has answered
\* true after the process it was observed with has gone and no process uses
\* its directory.
C30_Witness ==
    /\ ret.op = "IsRunning" /\ ret.val = "true"
    /\ cmd = NoCmd
    /\ status[ExtPid] = "none"
    /\ Discover(status) = {}

=============================================================================
